---- MODULE Spec2Model ----
(***************************************************************************)
(* A model of the sentinel package (sentinel/sentinel.go and               *)
(* sentinel/options.go): the Sentinel controller with its embedded mutex,  *)
(* the listener lifecycle, the per-connection authentication gate, the     *)
(* master/replica registry and the options builder.                        *)
(*                                                                         *)
(* Go values are modelled at the granularity the Go memory model gives     *)
(* them.  A pointer or an int is one machine word and is read or written   *)
(* in one step.  A slice is three words (ptr, len, cap) over a backing     *)
(* array on the heap; an access that holds no lock reads or writes the     *)
(* three words in three steps, in an order the build chooses.              *)
(***************************************************************************)
EXTENDS Integers, Sequences, FiniteSets, TLC

(* ------------------------------ bounds --------------------------------- *)

\* API calls each caller goroutine makes: in SpecTopo,
MaxTopoOps == 1

\* in SpecLife, SpecQuery and SpecWait,
MaxLifeOps == 2

\* in SpecAuth and SpecFrame,
MaxAuthOps == 3

\* and in SpecCons and SpecOpts.
MaxConsOps == 2

\* Commands each connection sends in SpecAuth and SpecWait.
MaxCmds == 2

\* The TCP ports of 127.0.0.1 that can be bound are 1..NumPorts.
NumPorts == 2

(* ------------------------------ universe -------------------------------- *)

Nil == "nil"

\* The data-node handles (*miniredis.Miniredis) the callers own.
Nodes == {"m1", "m2"}

\* The controllers, and the caller goroutines that use them.
Sentinels == {"s1", "s2"}

Threads == {"t1", "t2"}

\* The client connections, each served by its own goroutine.
Conns == {"k1"}

Ports == 1..NumPorts

\* The passwords RequireAuth and AUTH are given.
Passwords == {"", "pw1", "pw2"}

NoOne == "unlocked"

(* ------------------------------ slices ---------------------------------- *)

\* A slice header: three machine words.  ptr is an index into heap, 0 is nil.
Slice(p, l, c) == [ptr |-> p, len |-> l, cap |-> c]

Words == {"ptr", "len", "cap"}

NilSlice == Slice(0, 0, 0)

\* The heap the callers start with: heap[1] is the zero-length array every
\* empty literal []T{} points to, heap[2] backs a full one-element slice and
\* heap[3] backs a one-element slice with room for one more.
InitHeap == << <<>>, <<"m1">>, <<"m2", Nil>> >>

EmptySlice == Slice(1, 0, 0)

FullSlice == Slice(2, 1, 1)

SpareSlice == Slice(3, 1, 2)

\* The replica lists a caller can pass in.
CallerSlices == {NilSlice, EmptySlice, FullSlice, SpareSlice}

\* A header that addresses memory its backing array really has.
InBounds(h, sl) ==
    /\ sl.len <= sl.cap
    /\ IF sl.ptr = 0 THEN sl.cap = 0
       ELSE sl.ptr <= Len(h) /\ sl.cap <= Len(h[sl.ptr])

\* The elements a slice shows.
Elems(h, sl) == IF sl.len = 0 THEN <<>> ELSE SubSeq(h[sl.ptr], 1, sl.len)

\* runtime growslice for pointer elements, small sizes: the needed length when
\* that is more than double the old capacity, else double (the capacities
\* reached here are all allocation size classes, so none is rounded up).
GrowCap(oldcap, needed) == IF needed > 2 * oldcap THEN needed ELSE 2 * oldcap

\* The builtin append(sl, r) on an in-bounds slice: in place when there is
\* room, else into a fresh, larger array.  Gives the new heap and header.
GoAppend(h, sl, r) ==
    IF sl.len < sl.cap
    THEN [heap |-> [h EXCEPT ![sl.ptr][sl.len + 1] = r],
          slice |-> Slice(sl.ptr, sl.len + 1, sl.cap)]
    ELSE LET nc == GrowCap(sl.cap, sl.len + 1)
             arr == [i \in 1..nc |->
                       IF i <= sl.len THEN h[sl.ptr][i]
                       ELSE IF i = sl.len + 1 THEN r ELSE Nil]
         IN [heap |-> Append(h, arr),
             slice |-> Slice(Len(h) + 1, sl.len + 1, nc)]

(* ------------------------------ options --------------------------------- *)

\* The package-level defaults.
defaultOptions == [masterName |-> "mymaster", master |-> Nil, replicas |-> NilSlice]

\* An Option is a closure writing one field of Options; it is modelled by the
\* field it writes and the value it captured.
OptWithMasterName(name) == [field |-> "masterName", value |-> name]

OptWithMaster(m) == [field |-> "master", value |-> m]

OptWithReplicas(replicas) == [field |-> "replicas", value |-> replicas]

\* o(&opts): the closure's assignment.  A slice is assigned by header, so the
\* options share the caller's backing array.
ApplyOption(o, opts) == [opts EXCEPT ![o.field] = o.value]

\* copystructure.Copy of an Options value.  The walker makes a new struct and
\* sets the fields it visits; it skips every unexported field (the reflect
\* package does not let it set one), and all three fields of Options are
\* unexported, so the copy holds their zero values.
CopyStructure(opts) == [masterName |-> "", master |-> Nil, replicas |-> NilSlice]

RECURSIVE ApplyAll(_, _)
ApplyAll(opt, opts) ==
    IF opt = <<>> THEN opts
    ELSE ApplyAll(Tail(opt), ApplyOption(Head(opt), opts))

GetOpts(opt) == ApplyAll(opt, CopyStructure(defaultOptions))

(* ------------------------------ controller ------------------------------ *)

\* The zero Sentinel: no listener (srv 0), port 0, no password, no topology.
\* The condition variable signal is never waited on or signalled.
ZeroSentinel ==
    [srv |-> 0, port |-> 0, password |-> "", master |-> Nil, replicas |-> NilSlice]

\* NewSentinel(opts...): gives the heap after construction and the controller.
\* The default replica list is a fresh one-element array holding the master.
NewSentinel(h, opt) ==
    LET o  == GetOpts(opt)
        h1 == IF o.master # Nil THEN Append(h, <<o.master>>) ELSE h
        s1 == IF o.master # Nil
              THEN [ZeroSentinel EXCEPT !.master = o.master,
                                        !.replicas = Slice(Len(h1), 1, 1)]
              ELSE ZeroSentinel
        s2 == IF o.replicas.ptr # 0 THEN [s1 EXCEPT !.replicas = o.replicas] ELSE s1
    IN [heap |-> h1, sentinel |-> s2]

VARIABLES
    sentinel,   \* [Sentinels -> the fields of the Sentinel struct]
    mutex,      \* [Sentinels -> the holder of the embedded sync.Mutex, or NoOne]
    heap,       \* the backing arrays of all slices
    corrupt,    \* memory outside a backing array has been read or written
    servers,    \* the listeners made so far: <<[port, open, handler], ...>>
    conn,       \* [Conns -> the connection: state, srv, Ctx, pc, reply, cmds]
    pc,         \* [Threads -> where the goroutine is]
    loc,        \* [Threads -> the locals of the call in progress]
    ret,        \* [Threads -> the last call's name, receiver and result]
    opsLeft,    \* [Threads -> calls still to make]
    written,    \* history: [Sentinels -> the replica headers calls have set]
    mwritten,   \* history: [Sentinels -> the masters calls have set]
    own,        \* history: [Sentinels -> the replica sequence its own calls made]
    opt         \* history: the options the controllers were constructed from

vars == <<sentinel, mutex, heap, corrupt, servers, conn, pc, loc, ret, opsLeft,
          written, mwritten, own, opt>>

NoLoc == [op |-> "none", s |-> Nil, hdr |-> NilSlice, todo |-> {}, arg |-> Nil,
          port |-> 0, srv |-> 0]

\* c.Ctx of a connection that has none yet.
NilCtx == [set |-> FALSE, authenticated |-> FALSE]

\* A connection slot nobody is connected on.
\* cred is history: the credential the connection's last accepted AUTH gave.
NoConn == [state |-> "closed", srv |-> 0, ctx |-> NilCtx, pc |-> "idle",
           arg |-> "", reply |-> "none", cmds |-> 0, cred |-> "none"]

NoRet == [op |-> "none", s |-> Nil, val |-> Nil]

\* The state after both controllers were constructed from the options opt.
InitFrom(o, budget, cmds) ==
    LET c1 == NewSentinel(InitHeap, o)
        c2 == NewSentinel(c1.heap, o)
    IN /\ sentinel = [s \in Sentinels |-> IF s = "s1" THEN c1.sentinel ELSE c2.sentinel]
       /\ heap = c2.heap
       /\ mutex = [s \in Sentinels |-> NoOne]
       /\ corrupt = FALSE
       /\ servers = <<>>
       /\ conn = [k \in Conns |-> [NoConn EXCEPT !.cmds = cmds]]
       /\ pc = [p \in Threads |-> "idle"]
       /\ loc = [p \in Threads |-> NoLoc]
       /\ ret = [p \in Threads |-> NoRet]
       /\ opsLeft = [p \in Threads |-> budget]
       /\ written = [s \in Sentinels |->
                        {IF s = "s1" THEN c1.sentinel.replicas ELSE c2.sentinel.replicas}]
       /\ mwritten = [s \in Sentinels |->
                        {IF s = "s1" THEN c1.sentinel.master ELSE c2.sentinel.master}]
       /\ own = [s \in Sentinels |->
                   Elems(c2.heap, IF s = "s1" THEN c1.sentinel.replicas
                                  ELSE c2.sentinel.replicas)]
       /\ opt = o

(* ------------------------------ calls ----------------------------------- *)

\* A goroutine can make a call: it is in none, has calls left to make, and
\* the program has not crashed (wild memory access, or a goroutine's panic).
CanCall(p) ==
    /\ pc[p] = "idle" /\ opsLeft[p] > 0 /\ ~corrupt
    /\ \A q \in Threads : pc[q] # "panic"

\* A call returns: the goroutine is idle again and has its result.
Return(p, op, s, val) ==
    /\ pc' = [pc EXCEPT ![p] = "idle"]
    /\ loc' = [loc EXCEPT ![p] = NoLoc]
    /\ ret' = [ret EXCEPT ![p] = [op |-> op, s |-> s, val |-> val]]

Called(p) == opsLeft' = [opsLeft EXCEPT ![p] = @ - 1]

(* ------------------------------ topology -------------------------------- *)

\* func (s *Sentinel) WithMaster(m): one word written, no lock taken.
WithMaster(p, s, m) ==
    /\ CanCall(p)
    /\ sentinel' = [sentinel EXCEPT ![s].master = m]
    /\ mwritten' = [mwritten EXCEPT ![s] = @ \cup {m}]
    /\ Return(p, "WithMaster", s, Nil)
    /\ Called(p)
    /\ UNCHANGED <<mutex, servers, conn, heap, corrupt, written, own, opt>>

\* func (s *Sentinel) Master(): one word read, no lock taken.
Master(p, s) ==
    /\ CanCall(p)
    /\ Return(p, "Master", s, sentinel[s].master)
    /\ Called(p)
    /\ UNCHANGED <<sentinel, mutex, servers, conn, heap, corrupt, written, mwritten, own, opt>>

\* One word of s.replicas is loaded into the local header.
LoadWord(p, s, w, hdr) == [hdr EXCEPT ![w] = sentinel[s].replicas[w]]

\* func (s *Sentinel) Replicas(): the three words are read, no lock taken.
Replicas(p, s) ==
    \/ /\ CanCall(p)
       /\ \E w \in Words :
            loc' = [loc EXCEPT ![p] = [NoLoc EXCEPT !.s = s, !.todo = Words \ {w},
                                                    !.hdr = LoadWord(p, s, w, NilSlice)]]
       /\ pc' = [pc EXCEPT ![p] = "Replicas"]
       /\ Called(p)
       /\ UNCHANGED <<sentinel, mutex, servers, conn, heap, corrupt, ret, written, mwritten, own, opt>>
    \/ /\ pc[p] = "Replicas" /\ loc[p].s = s
       /\ \E w \in loc[p].todo :
            LET hdr == LoadWord(p, s, w, loc[p].hdr)
            IN IF loc[p].todo = {w}
               THEN Return(p, "Replicas", s, hdr)
               ELSE /\ loc' = [loc EXCEPT ![p].todo = @ \ {w}, ![p].hdr = hdr]
                    /\ UNCHANGED <<pc, ret>>
       /\ UNCHANGED <<sentinel, mutex, servers, conn, heap, corrupt, opsLeft, written, mwritten, own, opt>>

\* One word of the local header is stored into s.replicas.
StoreWord(s, w, hdr) == [sentinel EXCEPT ![s].replicas[w] = hdr[w]]

\* func (s *Sentinel) SetReplicas(replicas): the three words are written, no
\* lock taken.
SetReplicas(p, s, replicas) ==
    \/ /\ CanCall(p)
       /\ \E w \in Words :
            /\ sentinel' = StoreWord(s, w, replicas)
            /\ loc' = [loc EXCEPT ![p] = [NoLoc EXCEPT !.s = s, !.todo = Words \ {w},
                                                    !.hdr = replicas]]
       /\ pc' = [pc EXCEPT ![p] = "SetReplicas"]
       /\ written' = [written EXCEPT ![s] = @ \cup {replicas}]
       /\ Called(p)
       /\ UNCHANGED <<mutex, servers, conn, heap, corrupt, ret, mwritten, own, opt>>
    \/ /\ pc[p] = "SetReplicas" /\ loc[p].s = s /\ loc[p].hdr = replicas
       /\ \E w \in loc[p].todo :
            /\ sentinel' = StoreWord(s, w, replicas)
            /\ IF loc[p].todo = {w}
               THEN /\ Return(p, "SetReplicas", s, Nil)
                    /\ own' = [own EXCEPT ![s] = Elems(heap, replicas)]
               ELSE /\ loc' = [loc EXCEPT ![p].todo = @ \ {w}]
                    /\ UNCHANGED <<pc, ret, own>>
       /\ UNCHANGED <<mutex, servers, conn, heap, corrupt, opsLeft, written, mwritten, opt>>

\* func (s *Sentinel) AddReplica(r): s.replicas = append(s.replicas, r).  The
\* header is read word by word, append runs on the local copy, and the result
\* is written back word by word; no lock is taken.  append on a header that is
\* not in bounds (one torn by a concurrent write) touches memory outside the
\* array: the run is marked corrupt and goes no further.
AddReplica(p, s, r) ==
    \/ /\ CanCall(p)
       /\ \E w \in Words :
            loc' = [loc EXCEPT ![p] = [NoLoc EXCEPT !.s = s, !.todo = Words \ {w},
                                                    !.arg = r,
                                                    !.hdr = LoadWord(p, s, w, NilSlice)]]
       /\ pc' = [pc EXCEPT ![p] = "AddReplica_load"]
       /\ Called(p)
       /\ UNCHANGED <<sentinel, mutex, servers, conn, heap, corrupt, ret, written, mwritten, own, opt>>
    \/ /\ pc[p] = "AddReplica_load" /\ loc[p].s = s /\ loc[p].arg = r
       /\ \E w \in loc[p].todo :
            /\ loc' = [loc EXCEPT ![p].todo = @ \ {w},
                                  ![p].hdr = LoadWord(p, s, w, loc[p].hdr)]
            /\ pc' = [pc EXCEPT ![p] = IF loc[p].todo = {w} THEN "AddReplica_append"
                                       ELSE "AddReplica_load"]
       /\ UNCHANGED <<sentinel, mutex, servers, conn, heap, corrupt, ret, opsLeft, written, mwritten, own, opt>>
    \/ /\ pc[p] = "AddReplica_append" /\ loc[p].s = s /\ loc[p].arg = r
       /\ ~corrupt
       /\ IF InBounds(heap, loc[p].hdr)
          THEN LET a == GoAppend(heap, loc[p].hdr, r)
               IN /\ heap' = a.heap
                  /\ loc' = [loc EXCEPT ![p].hdr = a.slice, ![p].todo = Words]
                  /\ pc' = [pc EXCEPT ![p] = "AddReplica_store"]
                  /\ written' = [written EXCEPT ![s] =
                                    IF loc[p].hdr \in @ THEN @ \cup {a.slice} ELSE @]
                  /\ UNCHANGED corrupt
          ELSE /\ corrupt' = TRUE
               /\ pc' = [pc EXCEPT ![p] = "fault"]
               /\ UNCHANGED <<heap, loc, written>>
       /\ UNCHANGED <<sentinel, mutex, servers, conn, ret, opsLeft, mwritten, own, opt>>
    \/ /\ pc[p] = "AddReplica_store" /\ loc[p].s = s /\ loc[p].arg = r
       /\ \E w \in loc[p].todo :
            /\ sentinel' = StoreWord(s, w, loc[p].hdr)
            /\ IF loc[p].todo = {w}
               THEN /\ Return(p, "AddReplica", s, Nil)
                    /\ own' = [own EXCEPT ![s] = Append(@, r)]
               ELSE /\ loc' = [loc EXCEPT ![p].todo = @ \ {w}]
                    /\ UNCHANGED <<pc, ret, own>>
       /\ UNCHANGED <<mutex, servers, conn, heap, corrupt, opsLeft, written, mwritten, opt>>

(* ------------------------------ options builder ------------------------- *)

\* A caller resolves the option list o with GetOpts(o...) and keeps the
\* result.  The call reads the package defaults and writes only its own copy.
CallGetOpts(p, o) ==
    /\ CanCall(p)
    /\ Return(p, "GetOpts", Nil, [given |-> o, opts |-> GetOpts(o)])
    /\ Called(p)
    /\ UNCHANGED <<sentinel, mutex, servers, conn, heap, corrupt, written, mwritten, own, opt>>

(* ------------------------------ lifecycle ------------------------------- *)

\* The ports no open listener holds.
FreePorts == Ports \ {servers[i].port : i \in {j \in 1..Len(servers) : servers[j].open}}

\* server.NewServer(addr) for the call op of goroutine p: net.Listen binds the
\* port asked for, or with port 0 any free port the system picks, and fails
\* when there is none.  On success the goroutine holds the new listener, which
\* accepts connections from now on; on failure the call returns the error.
NewServer(p, s, op, port) ==
    LET cand == IF port = 0 THEN FreePorts ELSE {port} \cap FreePorts
    IN IF cand = {}
       THEN /\ Return(p, op, s, [err |-> TRUE, port |-> 0, from |-> port])
            /\ UNCHANGED servers
       ELSE \E q \in cand :
              /\ servers' = Append(servers, [port |-> q, open |-> TRUE, handler |-> Nil])
              /\ loc' = [loc EXCEPT ![p] = [NoLoc EXCEPT !.op = op, !.s = s,
                                                      !.port = port,
                                                      !.srv = Len(servers) + 1]]
              /\ pc' = [pc EXCEPT ![p] = "start"]
              /\ UNCHANGED ret

\* A start that clears the password along with storing the listener.
startStore_ResetAuth(sn, srv, port) ==
    [sn EXCEPT !.srv = srv, !.port = port, !.password = ""]

\* The body of start under the lock: s.srv = srv; s.port = srv.Addr().Port.
startStore(sn, srv, port) == [sn EXCEPT !.srv = srv, !.port = port]

\* func (s *Sentinel) start(srv): Lock, store the listener and its port,
\* commandsPing(s) registers the PING handler on s.srv, deferred Unlock.
start(p, s) ==
    \/ /\ pc[p] = "start" /\ loc[p].s = s
       /\ mutex[s] = NoOne
       /\ mutex' = [mutex EXCEPT ![s] = p]
       /\ pc' = [pc EXCEPT ![p] = "start_locked"]
       /\ UNCHANGED <<sentinel, heap, corrupt, servers, conn, loc, ret, opsLeft,
                      written, mwritten, own, opt>>
    \/ /\ pc[p] = "start_locked" /\ loc[p].s = s
       /\ sentinel' = [sentinel EXCEPT
                          ![s] = startStore(@, loc[p].srv, servers[loc[p].srv].port)]
       /\ servers' = [servers EXCEPT ![sentinel'[s].srv].handler = s]
       /\ mutex' = [mutex EXCEPT ![s] = NoOne]
       /\ Return(p, loc[p].op, s, [err |-> FALSE, port |-> sentinel'[s].port,
                                   from |-> loc[p].port])
       /\ UNCHANGED <<heap, corrupt, conn, opsLeft, written, mwritten, own, opt>>

\* A Start that forgets the port when the bind fails.
StartAs_ForgetPort(p, s, op) ==
    \/ /\ CanCall(p)
       /\ loc' = [loc EXCEPT ![p] = [NoLoc EXCEPT !.op = op, !.s = s,
                                               !.port = sentinel[s].port]]
       /\ pc' = [pc EXCEPT ![p] = "Start_bind"]
       /\ Called(p)
       /\ UNCHANGED <<sentinel, mutex, heap, corrupt, servers, conn, ret,
                      written, mwritten, own, opt>>
    \/ /\ pc[p] = "Start_bind" /\ loc[p].s = s /\ loc[p].op = op
       /\ NewServer(p, s, op, loc[p].port)
       /\ sentinel' = IF pc'[p] = "idle" THEN [sentinel EXCEPT ![s].port = 0]
                      ELSE sentinel
       /\ UNCHANGED <<mutex, heap, corrupt, conn, opsLeft, written, mwritten, own, opt>>

\* s.Start() called as op: s.port is read with no lock held, then
\* server.NewServer("127.0.0.1:<port>"), then start(srv).
StartAs(p, s, op) ==
    \/ /\ CanCall(p)
       /\ loc' = [loc EXCEPT ![p] = [NoLoc EXCEPT !.op = op, !.s = s,
                                               !.port = sentinel[s].port]]
       /\ pc' = [pc EXCEPT ![p] = "Start_bind"]
       /\ Called(p)
       /\ UNCHANGED <<sentinel, mutex, heap, corrupt, servers, conn, ret,
                      written, mwritten, own, opt>>
    \/ /\ pc[p] = "Start_bind" /\ loc[p].s = s /\ loc[p].op = op
       /\ NewServer(p, s, op, loc[p].port)
       /\ UNCHANGED <<sentinel, mutex, heap, corrupt, conn, opsLeft, written, mwritten, own, opt>>

\* func (s *Sentinel) Start()
Start(p, s) == StartAs(p, s, "Start")

\* func (s *Sentinel) Restart(): return s.Start()
Restart(p, s) == StartAs(p, s, "Restart")

\* func (s *Sentinel) StartAddr(addr): server.NewServer(addr), then start(srv).
\* The address is given by its port.
StartAddr(p, s, port) ==
    /\ CanCall(p)
    /\ NewServer(p, s, "StartAddr", port)
    /\ Called(p)
    /\ UNCHANGED <<sentinel, mutex, heap, corrupt, conn, written, mwritten, own, opt>>

\* A Close that never finds the controller without a listener.
CloseHasListener_Always(sn) == TRUE

\* Close's test "s.srv == nil", negated.
CloseHasListener(sn) == sn.srv # 0

\* A Close that leaves the listener in s.srv.
CloseDetach_Keep(sn) == sn

\* A Close that forgets the port along with the listener.
CloseDetach_ResetPort(sn) == [sn EXCEPT !.srv = 0, !.port = 0]

\* Close's "s.srv = nil".
CloseDetach(sn) == [sn EXCEPT !.srv = 0]

\* A Close that goes on to the shutdown without unlocking.
CloseUnlock_Missing(mu, s) == mu

\* Close's s.Unlock(), on both of its paths.
CloseUnlock(mu, s) == [mu EXCEPT ![s] = NoOne]

\* srv.Close() on the connections: the listener closes every connection it
\* has.  One whose goroutine is between commands is gone at once; one whose
\* goroutine is inside a command (waiting for the controller's lock, or
\* holding it) is gone when the command is done.
ShutdownConns(srv) ==
    [k \in Conns |->
        IF conn[k].state = "open" /\ conn[k].srv = srv
        THEN IF conn[k].pc = "idle"
             THEN [NoConn EXCEPT !.cmds = conn[k].cmds]
             ELSE [conn[k] EXCEPT !.state = "closing"]
        ELSE conn[k]]

\* func (s *Sentinel) Close(): Lock; with no listener Unlock and return; else
\* take the listener out of s.srv, Unlock, and srv.Close() outside the lock.
\* srv.Close() closes the listener and its connections, then waits for the
\* connections' goroutines.
Close(p, s) ==
    \/ /\ CanCall(p)
       /\ mutex[s] = NoOne
       /\ mutex' = [mutex EXCEPT ![s] = p]
       /\ loc' = [loc EXCEPT ![p] = [NoLoc EXCEPT !.op = "Close", !.s = s]]
       /\ pc' = [pc EXCEPT ![p] = "Close_locked"]
       /\ Called(p)
       /\ UNCHANGED <<sentinel, heap, corrupt, servers, conn, ret, written, mwritten, own, opt>>
    \/ /\ pc[p] = "Close_locked" /\ loc[p].s = s
       /\ mutex' = CloseUnlock(mutex, s)
       /\ IF CloseHasListener(sentinel[s])
          THEN /\ loc' = [loc EXCEPT ![p].srv = sentinel[s].srv]
               /\ sentinel' = [sentinel EXCEPT ![s] = CloseDetach(@)]
               /\ pc' = [pc EXCEPT ![p] = "Close_shutdown"]
               /\ UNCHANGED ret
          ELSE /\ Return(p, "Close", s, "noop")
               /\ UNCHANGED sentinel
       /\ UNCHANGED <<heap, corrupt, servers, conn, opsLeft, written, mwritten, own, opt>>
    \/ /\ pc[p] = "Close_shutdown" /\ loc[p].s = s
       /\ IF loc[p].srv = 0
          THEN /\ pc' = [pc EXCEPT ![p] = "panic"]
               /\ UNCHANGED <<servers, conn>>
          ELSE /\ servers' = [servers EXCEPT ![loc[p].srv].open = FALSE]
               /\ conn' = ShutdownConns(loc[p].srv)
               /\ pc' = [pc EXCEPT ![p] = "Close_wait"]
       /\ UNCHANGED <<sentinel, mutex, heap, corrupt, loc, ret, opsLeft,
                      written, mwritten, own, opt>>
    \/ /\ pc[p] = "Close_wait" /\ loc[p].s = s
       /\ \A k \in Conns : ~(conn[k].state = "closing" /\ conn[k].srv = loc[p].srv)
       /\ Return(p, "Close", s, "closed")
       /\ UNCHANGED <<sentinel, mutex, heap, corrupt, servers, conn, opsLeft,
                      written, mwritten, own, opt>>

(* ------------------------------ queries --------------------------------- *)

Digits == <<"0", "1", "2", "3", "4", "5", "6", "7", "8", "9">>

\* strconv.Itoa of a number that is not negative: its decimal digits.
RECURSIVE Itoa(_)
Itoa(n) == IF n < 10 THEN <<Digits[n + 1]>>
           ELSE Itoa(n \div 10) \o <<Digits[(n % 10) + 1]>>

\* What the accessor op gives on the listener srv.  Every listener is bound on
\* 127.0.0.1.  The listener's count of all connections it ever accepted is not
\* kept here: it is given by its lower bound, the connections it has now.
QueryValue(op, srv) ==
    LET clients == Cardinality({k \in Conns : conn[k].state # "closed" /\ conn[k].srv = srv})
    IN CASE op = "Addr" -> [ip |-> "127.0.0.1", port |-> servers[srv].port]
         [] op = "Host" -> "127.0.0.1"
         [] op = "Port" -> Itoa(servers[srv].port)
         [] op = "CurrentConnectionCount" -> clients
         [] op = "TotalConnectionCount" -> [atLeast |-> clients]

\* Addr, Host, Port, CurrentConnectionCount and TotalConnectionCount: Lock,
\* deferred Unlock, and a method call on s.srv that reads the listener's
\* fields.  With s.srv nil that read is a nil pointer dereference: the
\* goroutine panics, the deferred Unlock runs, and nothing is returned.
Query(p, s, op) ==
    \/ /\ CanCall(p)
       /\ mutex[s] = NoOne
       /\ mutex' = [mutex EXCEPT ![s] = p]
       /\ loc' = [loc EXCEPT ![p] = [NoLoc EXCEPT !.op = op, !.s = s]]
       /\ pc' = [pc EXCEPT ![p] = "Query_locked"]
       /\ Called(p)
       /\ UNCHANGED <<sentinel, heap, corrupt, servers, conn, ret, written, mwritten, own, opt>>
    \/ /\ pc[p] = "Query_locked" /\ loc[p].s = s /\ loc[p].op = op
       /\ mutex' = [mutex EXCEPT ![s] = NoOne]
       /\ IF sentinel[s].srv = 0
          THEN /\ pc' = [pc EXCEPT ![p] = "panic"]
               /\ UNCHANGED <<loc, ret>>
          ELSE Return(p, op, s, QueryValue(op, sentinel[s].srv))
       /\ UNCHANGED <<sentinel, heap, corrupt, servers, conn, opsLeft, written, mwritten, own, opt>>

\* func (s *Sentinel) Addr()
Addr(p, s) == Query(p, s, "Addr")

\* func (s *Sentinel) Host()
Host(p, s) == Query(p, s, "Host")

\* func (s *Sentinel) Port()
Port(p, s) == Query(p, s, "Port")

\* func (s *Sentinel) CurrentConnectionCount()
CurrentConnectionCount(p, s) == Query(p, s, "CurrentConnectionCount")

\* func (s *Sentinel) TotalConnectionCount()
TotalConnectionCount(p, s) == Query(p, s, "TotalConnectionCount")

(* ------------------------------ authentication -------------------------- *)

\* A RequireAuth that takes the empty string for "no change".
setPassword_KeepSet(sn, pw) == IF pw = "" THEN sn ELSE [sn EXCEPT !.password = pw]

\* RequireAuth's "s.password = pw".
setPassword(sn, pw) == [sn EXCEPT !.password = pw]

\* func (s *Sentinel) RequireAuth(pw): Lock, set the password, deferred Unlock.
RequireAuth(p, s, pw) ==
    \/ /\ CanCall(p)
       /\ mutex[s] = NoOne
       /\ mutex' = [mutex EXCEPT ![s] = p]
       /\ loc' = [loc EXCEPT ![p] = [NoLoc EXCEPT !.op = "RequireAuth", !.s = s,
                                               !.arg = pw]]
       /\ pc' = [pc EXCEPT ![p] = "RequireAuth_locked"]
       /\ Called(p)
       /\ UNCHANGED <<sentinel, heap, corrupt, servers, conn, ret, written, mwritten, own, opt>>
    \/ /\ pc[p] = "RequireAuth_locked" /\ loc[p].s = s /\ loc[p].arg = pw
       /\ sentinel' = [sentinel EXCEPT ![s] = setPassword(@, pw)]
       /\ mutex' = [mutex EXCEPT ![s] = NoOne]
       /\ Return(p, "RequireAuth", s, pw)
       /\ UNCHANGED <<heap, corrupt, servers, conn, opsLeft, written, mwritten, own, opt>>

\* A getCtx that makes a new context on every use.
getCtx_Fresh(ctx) == [set |-> TRUE, authenticated |-> FALSE]

\* func getCtx(c): the connection's context, made on first use.
getCtx(ctx) == IF ~ctx.set THEN [set |-> TRUE, authenticated |-> FALSE] ELSE ctx

\* func setAuthenticated(c)
setAuthenticated(ctx) == [getCtx(ctx) EXCEPT !.authenticated = TRUE]

\* A handleAuth that denies every connection once a password is set.
handleAuth_IgnoreFlag(password, ctx) ==
    IF password = ""
    THEN [ok |-> TRUE, ctx |-> ctx, wrote |-> "none"]
    ELSE [ok |-> FALSE, ctx |-> ctx, wrote |-> "NOAUTH Authentication required."]

\* A handleAuth without the test for an empty password.
handleAuth_NoEmptyTest(password, ctx) ==
    IF ~ctx.authenticated
    THEN [ok |-> FALSE, ctx |-> ctx, wrote |-> "NOAUTH Authentication required."]
    ELSE [ok |-> TRUE, ctx |-> ctx, wrote |-> "none"]

\* The body of handleAuth under the lock: whether the command may go on, the
\* connection's context afterwards, and the error written to the connection.
handleAuth(password, ctx) ==
    IF password = ""
    THEN [ok |-> TRUE, ctx |-> ctx, wrote |-> "none"]
    ELSE IF ~getCtx(ctx).authenticated
         THEN [ok |-> FALSE, ctx |-> getCtx(ctx),
               wrote |-> "NOAUTH Authentication required."]
         ELSE [ok |-> TRUE, ctx |-> getCtx(ctx), wrote |-> "none"]

\* The controller whose handlers the connection's listener runs.
Handler(k) == servers[conn[k].srv].handler

\* The connection's goroutine is done with a command.  A connection its
\* listener closed meanwhile is torn down now, its context with it.
Done(k, ctx, reply) ==
    IF conn[k].state = "closing"
    THEN [NoConn EXCEPT !.cmds = conn[k].cmds]
    ELSE [conn[k] EXCEPT !.pc = "idle", !.ctx = ctx, !.reply = reply, !.arg = ""]

\* Where the goroutine of a connection is while its handler for cmd waits for
\* the controller's lock.
Waiting(cmd) == IF cmd = "PING" THEN "PING_lock" ELSE "AUTH_lock"

\* A connection's goroutine starts a command: it reads the command and calls
\* the handler, which first takes the controller's lock (handleAuth's and the
\* AUTH handler's s.Lock()) and may have to wait for it.
Begin(k, cmd, arg) ==
    \/ /\ conn[k].state = "open" /\ conn[k].pc = "idle" /\ conn[k].cmds > 0
       /\ Handler(k) # Nil
       /\ conn' = [conn EXCEPT ![k].pc = Waiting(cmd), ![k].arg = arg, ![k].cmds = @ - 1]
       /\ UNCHANGED <<sentinel, mutex, heap, corrupt, servers, pc, loc, ret, opsLeft,
                      written, mwritten, own, opt>>
    \/ /\ conn[k].pc = Waiting(cmd) /\ conn[k].arg = arg
       /\ mutex[Handler(k)] = NoOne
       /\ mutex' = [mutex EXCEPT ![Handler(k)] = k]
       /\ conn' = [conn EXCEPT ![k].pc = cmd]
       /\ UNCHANGED <<sentinel, heap, corrupt, servers, pc, loc, ret, opsLeft,
                      written, mwritten, own, opt>>

\* The PING handler: handleAuth(c), and the reply when it allows the command.
cmdPing(k) ==
    \/ Begin(k, "PING", "")
    \/ /\ conn[k].pc = "PING"
       /\ LET a == handleAuth(sentinel[Handler(k)].password, conn[k].ctx)
          IN conn' = [conn EXCEPT ![k] = Done(k, a.ctx, IF a.ok THEN "PONG" ELSE a.wrote)]
       /\ mutex' = [mutex EXCEPT ![Handler(k)] = NoOne]
       /\ UNCHANGED <<sentinel, heap, corrupt, servers, pc, loc, ret, opsLeft,
                      written, mwritten, own, opt>>

\* The AUTH handler: under the lock, a credential equal to the current
\* password marks the connection authenticated.
cmdAuth(k, pw) ==
    \/ Begin(k, "AUTH", pw)
    \/ /\ conn[k].pc = "AUTH" /\ conn[k].arg = pw
       /\ conn' = [conn EXCEPT ![k] =
                     IF sentinel[Handler(k)].password = pw
                     THEN [Done(k, setAuthenticated(conn[k].ctx), "OK") EXCEPT
                              !.cred = IF conn[k].state = "closing" THEN "none" ELSE pw]
                     ELSE Done(k, conn[k].ctx, "ERR invalid password")]
       /\ mutex' = [mutex EXCEPT ![Handler(k)] = NoOne]
       /\ UNCHANGED <<sentinel, heap, corrupt, servers, pc, loc, ret, opsLeft,
                      written, mwritten, own, opt>>

\* A client connects to an open listener: a fresh connection with no context.
Connect(k) ==
    /\ conn[k].state = "closed"
    /\ \E srv \in 1..Len(servers) :
         /\ servers[srv].open
         /\ conn' = [conn EXCEPT ![k] = [NoConn EXCEPT !.state = "open", !.srv = srv,
                                                       !.cmds = conn[k].cmds]]
    /\ UNCHANGED <<sentinel, mutex, heap, corrupt, servers, pc, loc, ret, opsLeft,
                   written, mwritten, own, opt>>

\* The client hangs up between commands: the connection is torn down, its
\* context with it.
Disconnect(k) ==
    /\ conn[k].state = "open" /\ conn[k].pc = "idle"
    /\ conn' = [conn EXCEPT ![k] = [NoConn EXCEPT !.cmds = conn[k].cmds]]
    /\ UNCHANGED <<sentinel, mutex, heap, corrupt, servers, pc, loc, ret, opsLeft,
                   written, mwritten, own, opt>>

(* ------------------------------ specifications -------------------------- *)

\* Concurrent callers of the topology accessors of one controller.
InitTopo ==
    \E o \in {<<>>, <<OptWithMaster("m1")>>, <<OptWithReplicas(SpareSlice)>>} :
        InitFrom(o, MaxTopoOps, 0)

NextTopo ==
    \E p \in Threads :
        \/ \E m \in Nodes : WithMaster(p, "s1", m)
        \/ Master(p, "s1")
        \/ Replicas(p, "s1")
        \/ \E sl \in CallerSlices : SetReplicas(p, "s1", sl)
        \/ \E r \in Nodes : AddReplica(p, "s1", r)

SpecTopo == InitTopo /\ [][NextTopo]_vars

\* Concurrent callers of the lifecycle operations.
InitLife == InitFrom(<<>>, MaxLifeOps, 0)

NextLife ==
    \E p \in Threads : \E s \in {"s1"} :
        \/ Start(p, s)
        \/ Restart(p, s)
        \/ \E port \in {0} \cup Ports : StartAddr(p, s, port)
        \/ start(p, s)
        \/ Close(p, s)

SpecLife == InitLife /\ [][NextLife]_vars

\* The caller goroutine of SpecAuth and SpecCons.
AuthCallers == {"t1"}

\* Connections sending commands while callers change the password, the
\* topology and the listener of one controller.
InitAuth == InitFrom(<<>>, MaxAuthOps, MaxCmds)

NextAuth ==
    \/ \E p \in AuthCallers : \E s \in {"s1"} :
          \/ Start(p, s)
          \/ start(p, s)
          \/ Close(p, s)
          \/ \E pw \in Passwords : RequireAuth(p, s, pw)
          \/ \E m \in Nodes : WithMaster(p, s, m)
          \/ AddReplica(p, s, "m1")
          \/ SetReplicas(p, s, FullSlice)
    \/ \E k \in Conns :
          \/ Connect(k)
          \/ cmdPing(k)
          \/ \E pw \in Passwords : cmdAuth(k, pw)
          \/ Disconnect(k)

SpecAuth == InitAuth /\ [][NextAuth]_vars

\* The option lists the controllers are constructed from in SpecCons.
ConsOptions ==
    LET one == {OptWithMasterName("other")} \cup {OptWithMaster(m) : m \in Nodes}
                 \cup {OptWithReplicas(sl) : sl \in CallerSlices}
    IN {<<>>} \cup {<<a>> : a \in one} \cup {<<a, b>> : a \in one, b \in one}

\* Two controllers constructed from the same options, used by one caller.
InitCons == \E o \in ConsOptions : InitFrom(o, MaxConsOps, 0)

NextCons ==
    \E p \in AuthCallers : \E s \in Sentinels :
        \/ \E r \in Nodes : AddReplica(p, s, r)
        \/ Replicas(p, s)
        \/ Master(p, s)

SpecCons == InitCons /\ [][NextCons]_vars

\* Callers asking for the listener's address and counts while others start
\* and close the controller and clients come and go.
InitQuery == InitFrom(<<>>, MaxLifeOps, 0)

NextQuery ==
    \/ \E p \in Threads : \E s \in {"s1"} :
          \/ Start(p, s)
          \/ start(p, s)
          \/ Close(p, s)
          \/ Addr(p, s)
          \/ Host(p, s)
          \/ Port(p, s)
          \/ CurrentConnectionCount(p, s)
          \/ TotalConnectionCount(p, s)
    \/ \E k \in Conns :
          \/ Connect(k)
          \/ Disconnect(k)

SpecQuery == InitQuery /\ [][NextQuery]_vars

\* One goroutine starting and closing the controller between calls that set
\* the password and the topology.
InitFrame == \E o \in {<<>>, <<OptWithMaster("m1")>>} : InitFrom(o, MaxAuthOps, 0)

NextFrame ==
    \E p \in AuthCallers : \E s \in {"s1"} :
        \/ Start(p, s)
        \/ Restart(p, s)
        \/ \E port \in {0} \cup Ports : StartAddr(p, s, port)
        \/ start(p, s)
        \/ Close(p, s)
        \/ \E pw \in Passwords : RequireAuth(p, s, pw)
        \/ \E m \in Nodes : WithMaster(p, s, m)
        \/ \E r \in Nodes : AddReplica(p, s, r)
        \/ \E sl \in CallerSlices : SetReplicas(p, s, sl)

SpecFrame == InitFrame /\ [][NextFrame]_vars

\* Callers resolving option lists.
InitOpts == InitFrom(<<>>, MaxConsOps, 0)

NextOpts == \E p \in Threads : \E o \in ConsOptions : CallGetOpts(p, o)

SpecOpts == InitOpts /\ [][NextOpts]_vars

\* Callers closing the controller and setting the password, one of them also
\* starting it, while a connection's handlers run.
InitWait == InitFrom(<<>>, MaxLifeOps, MaxCmds)

NextWait ==
    \/ \E p \in AuthCallers : \E s \in {"s1"} :
          \/ Start(p, s)
          \/ start(p, s)
    \/ \E p \in Threads : \E s \in {"s1"} :
          \/ Close(p, s)
          \/ RequireAuth(p, s, "pw1")
    \/ \E k \in Conns :
          \/ Connect(k)
          \/ cmdPing(k)
          \/ Disconnect(k)

\* A call in progress takes its next step.
Proceed(p) ==
    /\ pc[p] # "idle"
    /\ \E s \in {"s1"} : Start(p, s) \/ start(p, s) \/ Close(p, s) \/ RequireAuth(p, s, "pw1")

\* A handler in progress takes its next step.
Serve(k) == conn[k].pc # "idle" /\ cmdPing(k)

\* The Go scheduler runs every runnable goroutine, and sync.Mutex hands the
\* lock to a goroutine that waits for it: a goroutine that is inside a call or
\* a handler and can take a step takes one.  Callers make finitely many calls
\* and connections send finitely many commands, so a goroutine waiting for the
\* lock is not overtaken for ever and weak fairness is enough.  Nothing makes
\* a caller call or a client connect.
FairWait ==
    /\ \A p \in Threads : WF_vars(Proceed(p))
    /\ \A k \in Conns : WF_vars(Serve(k))

SpecWait == InitWait /\ [][NextWait]_vars /\ FairWait

\* Every caller, controller and connection, every operation and every input.
Init == \E o \in ConsOptions : InitFrom(o, MaxLifeOps, MaxCmds)

Next ==
    \/ NextTopo \/ NextLife \/ NextAuth \/ NextCons
    \/ NextQuery \/ NextFrame \/ NextOpts \/ NextWait

Spec == Init /\ [][Next]_vars

(* ------------------------------ claims ---------------------------------- *)

\* C1: every value a master() or replicas() read returns is a value some call
\* (or the construction) actually set; no read returns a torn header.
C1_ReadsReturnSetValues ==
    \A p \in Threads :
        /\ ret[p].op = "Master" => ret[p].val \in mwritten[ret[p].s]
        /\ ret[p].op = "Replicas" => ret[p].val \in written[ret[p].s]

\* The places where a call is part-way through reading or writing the
\* controller's fields.
InBody == {"Replicas", "SetReplicas", "AddReplica_load", "AddReplica_append",
           "AddReplica_store", "Start_bind", "start_locked", "Close_locked",
           "RequireAuth_locked"}

\* C2: every operation holds the controller's lock for its whole body: a
\* call that is part-way through reading or writing the fields holds the lock,
\* and every step that changes a field is taken with the lock held.
C2_LockHeldForWholeBody ==
    [][/\ \A p \in Threads : pc[p] \in InBody => mutex[loc[p].s] = p
       /\ \A s \in Sentinels : sentinel'[s] # sentinel[s] => mutex[s] # NoOne]_vars

\* C3: a restart binds the port the original start bound.  The listener the
\* controller holds is open and bound to s.port; once s.port is set, nothing
\* changes it but a StartAddr, or a start that read s.port before another
\* start changed it; and a Start or Restart that read a port which is free
\* binds that very port.
C3_RestartSamePort ==
    [][/\ \A s \in Sentinels :
            /\ sentinel'[s].srv # 0 =>
                  /\ servers'[sentinel'[s].srv].open
                  /\ servers'[sentinel'[s].srv].port = sentinel'[s].port
            /\ (sentinel[s].port # 0 /\ sentinel'[s].port # sentinel[s].port) =>
                  \E p \in Threads :
                     /\ pc[p] = "start_locked" /\ loc[p].s = s
                     /\ loc[p].op = "StartAddr" \/ loc[p].port # sentinel[s].port
       /\ \A p \in Threads :
            (pc[p] = "Start_bind" /\ pc'[p] # "Start_bind" /\ loc[p].port \in FreePorts) =>
                  /\ pc'[p] = "start"
                  /\ servers'[loc'[p].srv].port = loc[p].port]_vars

\* C3 witness: a Restart that found the port of an earlier start bound it
\* again, after a Close shut the earlier listener down.
C3_Witness ==
    \E p, q \in Threads :
        /\ ret[p].op = "Restart" /\ ~ret[p].val.err
        /\ ret[p].val.from # 0 /\ ret[p].val.port = ret[p].val.from
        /\ sentinel[ret[p].s].srv # 0
        /\ ret[q].op = "Close" /\ ret[q].val = "closed"

\* C4: Close on a controller with no listener is a no-op: it returns, shuts
\* nothing down and leaves every field, listener and connection as it was.
C4_CloseNoListenerNoOp ==
    [][\A p \in Threads :
          (pc[p] = "Close_locked" /\ pc'[p] # "Close_locked"
             /\ sentinel[loc[p].s].srv = 0) =>
                /\ sentinel' = sentinel /\ servers' = servers /\ conn' = conn
                /\ pc'[p] = "idle"
                /\ ret'[p] = [op |-> "Close", s |-> loc[p].s, val |-> "noop"]]_vars

\* C4 witness: of two Close calls one shut the listener down and the other
\* found none.
C4_Witness ==
    \E p, q \in Threads :
        /\ ret[p].op = "Close" /\ ret[p].val = "noop"
        /\ ret[q].op = "Close" /\ ret[q].val = "closed"

\* A connection's PING handler finishes and the connection is still there.
PingDone(k) == conn[k].pc = "PING" /\ conn[k].state = "open" /\ conn'[k].pc = "idle"

\* C5: with a password set, a command on a connection that is not
\* authenticated is denied with NOAUTH, and a command on a connection that is
\* authenticated goes through; no call of a caller (a change of master or
\* replicas among them) touches a connection's context.
C5_AuthGate ==
    [][\A k \in Conns :
          /\ (PingDone(k) /\ sentinel[Handler(k)].password # "") =>
                IF conn[k].ctx.authenticated
                THEN conn'[k].reply = "PONG"
                ELSE conn'[k].reply = "NOAUTH Authentication required."
          /\ (conn[k].state = "open" /\ conn'[k].state = "open"
                /\ (pc' # pc \/ ret' # ret)) => conn'[k].ctx = conn[k].ctx]_vars

\* C5 witness: with a password set and the master changed, an authenticated
\* connection's command went through.
C5_Witness ==
    \E k \in Conns :
        /\ conn[k].ctx.authenticated /\ conn[k].reply = "PONG"
        /\ sentinel["s1"].password # "" /\ Cardinality(mwritten["s1"]) > 1

\* A caller's RequireAuth stores the password and returns.
RequireAuthDone(p) == pc[p] = "RequireAuth_locked" /\ pc'[p] = "idle"

\* C6: RequireAuth("") leaves the password empty, only RequireAuth changes
\* the password, and with an empty password every command goes through,
\* whatever the connection's flag.
C6_EmptyPasswordAllowsAll ==
    [][/\ \A p \in Threads :
            (RequireAuthDone(p) /\ loc[p].arg = "") => sentinel'[loc[p].s].password = ""
       /\ \A s \in Sentinels :
            sentinel'[s].password # sentinel[s].password =>
                \E p \in Threads : RequireAuthDone(p) /\ loc[p].s = s
       /\ \A k \in Conns :
            (PingDone(k) /\ sentinel[Handler(k)].password = "") =>
                conn'[k].reply = "PONG"]_vars

\* C6 witness: a connection that was denied and never authenticated had its
\* command go through after RequireAuth("").
C6_Witness ==
    \E k \in Conns : \E p \in Threads :
        /\ conn[k].ctx.set /\ ~conn[k].ctx.authenticated /\ conn[k].reply = "PONG"
        /\ ret[p].op = "RequireAuth" /\ ret[p].val = ""

\* C7: a fresh connection is not authenticated, and while a connection lasts
\* no step takes its authenticated flag back.
C7_AuthenticatedMonotonic ==
    [][\A k \in Conns :
          /\ (conn[k].state = "closed" /\ conn'[k].state # "closed") =>
                ~conn'[k].ctx.set /\ ~conn'[k].ctx.authenticated
          /\ (conn[k].state # "closed" /\ conn'[k].state # "closed"
                /\ conn[k].ctx.authenticated) => conn'[k].ctx.authenticated]_vars

\* C7 witness: an authenticated connection has had a later command checked
\* while a password was set.
C7_Witness ==
    \E k \in Conns :
        /\ conn[k].state = "open" /\ conn[k].ctx.authenticated
        /\ conn[k].cred # "none" /\ conn[k].reply = "PONG" /\ conn[k].cmds = 0
        /\ sentinel[Handler(k)].password # ""

\* C8: RequireAuth(pw) changes the password to pw and nothing else; after it
\* a connection authenticated under another password is still let through,
\* and one that is not authenticated is denied once the password is not empty.
C8_RequireAuthFrame ==
    [][/\ \A p \in Threads :
            RequireAuthDone(p) =>
                /\ sentinel' = [sentinel EXCEPT ![loc[p].s].password = loc[p].arg]
                /\ conn' = conn /\ servers' = servers /\ heap' = heap
       /\ \A k \in Conns :
            PingDone(k) =>
                LET pw == sentinel[Handler(k)].password
                IN /\ (conn[k].ctx.authenticated /\ conn[k].cred # pw) =>
                          conn'[k].reply = "PONG"
                   /\ (~conn[k].ctx.authenticated /\ pw # "") =>
                          conn'[k].reply # "PONG"]_vars

\* C8 witness: a connection authenticated under pw1 had a command go through
\* after the password was changed to pw2.
C8_Witness ==
    \E k \in Conns :
        /\ conn[k].ctx.authenticated /\ conn[k].cred = "pw1" /\ conn[k].reply = "PONG"
        /\ sentinel[Handler(k)].password = "pw2"

\* The state right after construction: no call has been made.
Fresh == \A p \in Threads : pc[p] = "idle" /\ ret[p] = NoRet

\* The value the last option writing field f gave, or absent.
LastOption(f) ==
    LET at == {i \in 1..Len(opt) : opt[i].field = f}
    IN IF at = {} THEN [given |-> FALSE, value |-> Nil]
       ELSE [given |-> TRUE, value |-> opt[CHOOSE i \in at : \A j \in at : j <= i].value]

\* C9: constructed with a master h and no replica list, the controller has
\* master h and replicas [h]; with an explicitly given replica list L it has
\* the replicas L, empty when L is empty, whether or not a master is given.
C9_Construction ==
    Fresh =>
        \A s \in Sentinels :
            LET m == LastOption("master")
                r == LastOption("replicas")
                shown == Elems(heap, sentinel[s].replicas)
            IN /\ (m.given /\ m.value # Nil /\ ~r.given) =>
                      sentinel[s].master = m.value /\ shown = <<m.value>>
               /\ r.given => shown = Elems(heap, r.value)

\* No call is in progress.
Quiescent == \A p \in Threads : pc[p] = "idle"

\* C10: two controllers constructed from the same options have independent
\* replica lists: whenever no call is in progress, each controller shows
\* exactly the sequence its own construction and calls made.
C10_IndependentTopology ==
    Quiescent =>
        \A s \in Sentinels :
            /\ InBounds(heap, sentinel[s].replicas)
            /\ Elems(heap, sentinel[s].replicas) = own[s]

\* C11: Addr, Host, Port, CurrentConnectionCount and TotalConnectionCount on a
\* controller with no listener (never started, or closed, also by a Close
\* running at the same time) end in a defined result: no goroutine panics.
C11_QueryNeverPanics == \A p \in Threads : pc[p] # "panic"

\* A call of Start, Restart or StartAddr returns in this step without having
\* bound a listener.
BindFailed(p) ==
    /\ pc'[p] = "idle"
    /\ pc[p] = "Start_bind" \/ (pc[p] = "idle" /\ opsLeft'[p] # opsLeft[p])
    /\ ret'[p].op \in {"Start", "Restart", "StartAddr"}

\* C12: a Start, StartAddr or Restart whose bind fails returns the error and
\* leaves the controller's fields, its lock, the listeners and the connections
\* exactly as they were; the caller is free to call again.
C12_BindErrorLeavesState ==
    [][\A p \in Threads :
          BindFailed(p) =>
              /\ ret'[p].val.err
              /\ sentinel' = sentinel /\ mutex' = mutex /\ servers' = servers
              /\ conn' = conn /\ heap' = heap
              /\ loc'[p] = NoLoc]_vars

\* C12 witness: a Start or Restart found its port in use and returned the
\* error, and the controller still has the open listener it had, on that port.
C12_Witness ==
    \E p \in Threads :
        /\ ret[p].op \in {"Start", "Restart"} /\ ret[p].val.err
        /\ sentinel[ret[p].s].srv # 0
        /\ servers[sentinel[ret[p].s].srv].open
        /\ sentinel[ret[p].s].port = ret[p].val.from

\* The listeners of controller s that are bound and not shut down.
Active(s) == {i \in 1..Len(servers) : servers[i].open /\ servers[i].handler = s}

\* C13: a controller has at most one active listener, and none it does not
\* reference: whenever no call is in progress, every listener of the
\* controller that is still bound is the one in s.srv.
C13_AtMostOneActiveListener ==
    Quiescent => \A s \in Sentinels : Active(s) \subseteq {sentinel[s].srv}

\* Where a goroutine inside Start, Restart, StartAddr or start is, and where
\* one inside Close is.
StartPcs == {"Start_bind", "start", "start_locked"}

ClosePcs == {"Close_locked", "Close_shutdown", "Close_wait"}

\* Goroutine p takes a step of a lifecycle call in this step.
LifeStep(p) ==
    \/ pc'[p] # pc[p] /\ {pc[p], pc'[p]} \cap (StartPcs \cup ClosePcs) # {}
    \/ BindFailed(p)

\* C14: no step of Start, StartAddr, Restart or Close changes the password,
\* the master or the replicas, and no step of Close changes the port; the
\* password changes only when a RequireAuth stores its argument, the master
\* only in a WithMaster, the replicas only in an AddReplica or a SetReplicas,
\* and when no call is in progress the replicas are the sequence the
\* construction and those calls made.
C14_LifecycleFrame ==
    [][/\ \A p \in Threads : \A s \in Sentinels :
            /\ LifeStep(p) =>
                  /\ sentinel'[s].password = sentinel[s].password
                  /\ sentinel'[s].master = sentinel[s].master
                  /\ sentinel'[s].replicas = sentinel[s].replicas
                  /\ heap' = heap
            /\ (LifeStep(p) /\ {pc[p], pc'[p]} \cap ClosePcs # {}) =>
                  sentinel'[s].port = sentinel[s].port
       /\ \A s \in Sentinels :
            /\ sentinel'[s].password # sentinel[s].password =>
                  \E p \in Threads :
                     /\ RequireAuthDone(p) /\ loc[p].s = s
                     /\ sentinel'[s].password = loc[p].arg
            /\ sentinel'[s].master # sentinel[s].master =>
                  \E p \in Threads :
                     /\ pc[p] = "idle" /\ ret'[p].op = "WithMaster" /\ ret'[p].s = s
                     /\ opsLeft'[p] # opsLeft[p]
            /\ sentinel'[s].replicas # sentinel[s].replicas =>
                  \E p \in Threads :
                     \/ pc[p] \in {"SetReplicas", "AddReplica_store"} /\ loc[p].s = s
                     \/ pc'[p] = "SetReplicas" /\ loc'[p].s = s
            /\ Quiescent' => Elems(heap', sentinel'[s].replicas) = own'[s]]_vars

\* C14 witness: a controller with a master was started under a password set
\* by a call and then closed; it has no listener, and still has that
\* password, its master and the port.
C14_Witness ==
    \E p \in Threads :
        /\ ret[p].op = "Close" /\ ret[p].val = "closed"
        /\ sentinel[ret[p].s].srv = 0 /\ sentinel[ret[p].s].port # 0
        /\ sentinel[ret[p].s].password # ""
        /\ sentinel[ret[p].s].master # Nil

\* The value the last option of the list o writing field f gave, or absent.
LastIn(o, f) ==
    LET at == {i \in 1..Len(o) : o[i].field = f}
    IN IF at = {} THEN [given |-> FALSE, value |-> Nil]
       ELSE [given |-> TRUE, value |-> o[CHOOSE i \in at : \A j \in at : j <= i].value]

\* C15: GetOpts starts from the defaults (master name "mymaster", no master,
\* no replicas) and applies the options in order: each field of the result is
\* what the last option writing it gave, or the default when none wrote it.
C15_GetOptsDefaultsThenOrder ==
    \A p \in Threads :
        ret[p].op = "GetOpts" =>
            \A f \in {"masterName", "master", "replicas"} :
                ret[p].val.opts[f] =
                    IF LastIn(ret[p].val.given, f).given
                    THEN LastIn(ret[p].val.given, f).value
                    ELSE defaultOptions[f]

\* C16: Start on a started controller rebinds: when the controller holds an
\* open listener on the port p an earlier start bound, a Start that read p
\* binds a new listener and goes on to store it.
C16_StartOnStartedRebinds ==
    [][\A p \in Threads : \A s \in Sentinels :
          (/\ pc[p] = "Start_bind" /\ pc'[p] # "Start_bind"
           /\ loc[p].op = "Start" /\ loc[p].s = s
           /\ sentinel[s].srv # 0 /\ servers[sentinel[s].srv].open
           /\ loc[p].port = sentinel[s].port) =>
              /\ pc'[p] = "start"
              /\ servers'[loc'[p].srv].open
              /\ loc'[p].srv # sentinel[s].srv]_vars

\* The listener's shutdown is called in this step by the Close of goroutine p.
ShutdownBegins(p) == pc[p] = "Close_shutdown" /\ pc'[p] = "Close_wait"

\* A Close past its unlock never holds the lock, and it took the listener out
\* of s.srv while it held the lock.
CloseOutsideLock(p) ==
    /\ pc[p] \in {"Close_shutdown", "Close_wait"} => mutex[loc[p].s] # p
    /\ (pc[p] = "Close_locked" /\ pc'[p] = "Close_shutdown") =>
          /\ mutex[loc[p].s] = p /\ mutex'[loc[p].s] # p
          /\ loc'[p].srv = sentinel[loc[p].s].srv
          /\ sentinel'[loc[p].s].srv = 0

\* C17 as stated: Close empties s.srv under the lock, unlocks, and only then
\* calls the listener's shutdown; the shutdown never runs while the closing
\* caller holds the lock, and s.srv is empty when the shutdown begins.
C17_SrvEmptyAtShutdown ==
    [][\A p \in Threads :
          /\ CloseOutsideLock(p)
          /\ ShutdownBegins(p) => sentinel[loc[p].s].srv = 0]_vars

\* C17, amended: as stated, but when the shutdown begins s.srv no longer holds
\* the listener being shut down: it is empty, or holds another listener that
\* a start stored after the unlock.
C17_DetachedAtShutdown ==
    [][\A p \in Threads :
          /\ CloseOutsideLock(p)
          /\ ShutdownBegins(p) => sentinel[loc[p].s].srv # loc[p].srv]_vars

\* C17 witness: a Close is in the listener's shutdown, s.srv is empty, and
\* another goroutine holds the controller's lock meanwhile.
C17_Witness ==
    \E p, q \in Threads :
        /\ pc[p] = "Close_wait" /\ ~servers[loc[p].srv].open
        /\ sentinel[loc[p].s].srv = 0
        /\ mutex[loc[p].s] = q /\ pc[q] = "start_locked"

\* C18: Close does not deadlock: with handlers that take and release the
\* controller's lock in flight, a Close in progress returns, a caller inside
\* any call while a Close is in the listener's shutdown returns, and a handler
\* in flight (handleAuth waiting for the lock, or holding it) finishes.
C18_CloseDeadlockFree ==
    /\ \A p \in Threads : (pc[p] \in ClosePcs) ~> (pc[p] = "idle")
    /\ \A p \in Threads :
          (pc[p] # "idle" /\ \E q \in Threads : pc[q] \in {"Close_shutdown", "Close_wait"})
             ~> (pc[p] = "idle")
    /\ \A k \in Conns : (conn[k].pc # "idle") ~> (conn[k].pc = "idle")

\* C18 witness: a Close waits in the shutdown for a handler that waits for
\* the lock, which a RequireAuth of another goroutine holds.
C18_Witness ==
    \E p, q \in Threads : \E k \in Conns :
        /\ pc[p] = "Close_wait" /\ conn[k].srv = loc[p].srv
        /\ conn[k].state = "closing" /\ conn[k].pc = "PING_lock"
        /\ pc[q] = "RequireAuth_locked" /\ mutex[loc[p].s] = q

\* The sequences a and b hold the same handles, each as often in one as in
\* the other.
SameHandles(a, b) ==
    /\ Len(a) = Len(b)
    /\ \A x \in Nodes \cup {Nil} :
          Cardinality({i \in 1..Len(a) : a[i] = x}) = Cardinality({i \in 1..Len(b) : b[i] = x})

\* C19: AddReplica is an atomic append.  When every goroutine has made at
\* most one call, an AddReplica, and all have returned, the replicas are the
\* sequence the controller was constructed with followed by every added
\* handle once, in some order.
C19_AddReplicaAtomicAppend ==
    (/\ Quiescent
     /\ \A p \in Threads : /\ opsLeft[p] >= MaxTopoOps - 1
                            /\ ret[p].op \in {"none", "AddReplica"}) =>
        LET shown == Elems(heap, sentinel["s1"].replicas)
            added == Cardinality({p \in Threads : ret[p].op = "AddReplica"})
            prior == Len(own["s1"]) - added
        IN /\ InBounds(heap, sentinel["s1"].replicas)
           /\ SameHandles(shown, own["s1"])
           /\ SubSeq(shown, 1, prior) = SubSeq(own["s1"], 1, prior)

\* Goroutine p is in a Close that has taken the listener srv out of s.srv.
Shuts(p, srv) == pc[p] \in {"Close_shutdown", "Close_wait"} /\ loc[p].srv = srv

\* A step in which no listener is shut down a second time.  The shutdown a
\* Close calls is of a listener that is still open and closes it for good; a
\* Close that finds a listener in s.srv is the only one that ever takes that
\* listener; and a Close that finds s.srv empty shuts nothing down.
ShutOnce ==
    /\ \A p \in Threads :
          /\ ShutdownBegins(p) =>
                /\ loc[p].srv # 0 /\ servers[loc[p].srv].open
                /\ ~servers'[loc[p].srv].open
                /\ \A q \in Threads \ {p} : ~Shuts(q, loc[p].srv)
          /\ (pc[p] = "Close_locked" /\ pc'[p] # "Close_locked") =>
                IF sentinel[loc[p].s].srv = 0
                THEN pc'[p] = "idle" /\ servers' = servers
                ELSE /\ pc'[p] = "Close_shutdown"
                     /\ loc'[p].srv = sentinel[loc[p].s].srv
                     /\ servers[loc'[p].srv].open
                     /\ \A q \in Threads \ {p} : ~Shuts(q, loc'[p].srv)
    /\ \A i \in 1..Len(servers) :
          /\ ~servers[i].open => ~servers'[i].open
          /\ (servers[i].open /\ ~servers'[i].open) =>
                \E p \in Threads : ShutdownBegins(p) /\ loc[p].srv = i

\* C20 as stated: a listener is shut down at most once, by the one Close that
\* took it, and every other Close running at the same time finds s.srv empty
\* and does nothing.
C20_OthersFindEmpty ==
    [][/\ ShutOnce
       /\ \A p \in Threads : \A q \in Threads \ {p} :
            (/\ Shuts(p, loc[p].srv) /\ loc[q].s = loc[p].s
             /\ pc[q] = "Close_locked" /\ pc'[q] # "Close_locked") =>
                sentinel[loc[q].s].srv = 0 /\ pc'[q] = "idle"]_vars

\* C20, amended: a listener is shut down at most once, by the one Close that
\* took it; every other Close finds s.srv empty and does nothing, or finds
\* another listener, which a start stored in between, and takes that one.
C20_ShutDownAtMostOnce == [][ShutOnce]_vars

\* C20 witness: while one Close is in the shutdown of the listener it took,
\* another Close holds the lock and finds s.srv empty.
C20_Witness ==
    \E p, q \in Threads :
        /\ pc[p] = "Close_wait" /\ ~servers[loc[p].srv].open
        /\ pc[q] = "Close_locked" /\ loc[q].s = loc[p].s
        /\ sentinel[loc[p].s].srv = 0

====
